---- MODULE Spec2Model ----
(***************************************************************************)
(* Model of cart/cart.py: the session-backed shopping cart `Cart`.         *)
(*                                                                         *)
(* Python values are tagged records:                                       *)
(*   [t |-> "int",   n |-> k]        an int                                *)
(*   [t |-> "str",   s |-> <<..>>]   a str, as its sequence of characters  *)
(*   [t |-> "float", twice |-> k]    the float k/2                         *)
(*   [t |-> "obj",   id |-> v]       an object exposing attribute `id`     *)
(*   [t |-> "none"]                  None                                  *)
(* The cart (session["cart"]) is a function from str keys (character       *)
(* sequences) to ints.                                                     *)
(***************************************************************************)
EXTENDS Integers, Sequences, FiniteSets, TLC

VARIABLES
    cart,       \* self.cart / session["cart"]: key -> quantity
    modified,   \* session.modified
    user,       \* request.user: [is_authenticated, id]
    profiles,   \* Profile table: user_id -> old_cart, one entry per row
    catalog,    \* Product table: set of [id, price, sale_price, is_sale]
    call,       \* the last call: [op, product, quantity, outcome]
    before,     \* self.cart as it was when the last call started
    ret         \* what the last call returned

vars == <<cart, modified, user, profiles, catalog, call, before, ret>>

---------------------------------------------------------------------------
\* Bounds of the model.

\* product ids 1..MaxId are passed to add / update / delete
MaxId == 2
\* int quantities -1 and 1..MaxQty are passed to add / update
MaxQty == 2
\* product ids 1..MaxCatalogId may be in the catalog of a pricing run
MaxCatalogId == 3
\* quantities 1..MaxCartQty are held by the carts of a pricing run
MaxCartQty == 3

---------------------------------------------------------------------------
\* Python values.

None == [t |-> "none"]
PyIntVal(k) == [t |-> "int", n |-> k]
PyStrVal(chars) == [t |-> "str", s |-> chars]
PyFloatHalves(k) == [t |-> "float", twice |-> k]
PyObj(idval) == [t |-> "obj", id |-> idval]

DigitChars == {"0", "1", "2", "3", "4", "5", "6", "7", "8", "9"}

DigitChar(d) ==
    CASE d = 0 -> "0" [] d = 1 -> "1" [] d = 2 -> "2" [] d = 3 -> "3"
      [] d = 4 -> "4" [] d = 5 -> "5" [] d = 6 -> "6" [] d = 7 -> "7"
      [] d = 8 -> "8" [] d = 9 -> "9"

DigitValue(c) == CHOOSE d \in 0..9 : DigitChar(d) = c

RECURSIVE NatStr(_)
NatStr(k) ==
    IF k < 10 THEN <<DigitChar(k)>>
    ELSE Append(NatStr(k \div 10), DigitChar(k % 10))

\* str(k) of an int k
IntStr(k) == IF k < 0 THEN <<"-">> \o NatStr(-k) ELSE NatStr(k)

\* str(o) of an object that is no int and no str: its repr, never a number
ObjRepr == <<"P", "r", "o", "d", "u", "c", "t">>

\* str(v)
PyStr(v) ==
    CASE v.t = "int" -> IntStr(v.n)
      [] v.t = "str" -> v.s
      [] v.t = "float" ->
            IntStr(IF v.twice < 0 THEN -((-v.twice) \div 2) ELSE v.twice \div 2)
                \o <<".">> \o (IF v.twice % 2 = 0 THEN <<"0">> ELSE <<"5">>)
      [] v.t = "obj" -> ObjRepr
      [] v.t = "none" -> <<"N", "o", "n", "e">>

RECURSIVE DigitsValue(_)
DigitsValue(chars) ==
    IF chars = <<>> THEN 0
    ELSE 10 * DigitsValue(SubSeq(chars, 1, Len(chars) - 1))
            + DigitValue(chars[Len(chars)])

Converted(k) == [ok |-> TRUE, n |-> k, exc |-> "none"]
Raised(e) == [ok |-> FALSE, n |-> 0, exc |-> e]

\* int(s) of a str: an optional sign, then one or more decimal digits
ParseInt(chars) ==
    LET signed == chars # <<>> /\ chars[1] \in {"-", "+"}
        digits == IF signed THEN Tail(chars) ELSE chars
    IN  IF digits = <<>> \/ \E i \in 1..Len(digits) : digits[i] \notin DigitChars
        THEN Raised("ValueError")
        ELSE Converted(IF signed /\ chars[1] = "-"
                       THEN -DigitsValue(digits) ELSE DigitsValue(digits))

\* int(v): [ok, n, exc]
PyInt(v) ==
    CASE v.t = "int" -> Converted(v.n)
      [] v.t = "float" ->
            Converted(IF v.twice < 0 THEN -((-v.twice) \div 2) ELSE v.twice \div 2)
      [] v.t = "str" -> ParseInt(v.s)
      [] v.t = "obj" -> Raised("TypeError")
      [] v.t = "none" -> Raised("TypeError")

\* hasattr(v, "id")
HasAttrId(v) == v.t = "obj"

---------------------------------------------------------------------------
\* Dictionaries.

EmptyCart == [k \in {} |-> 0]

\* d[key] = value
DictSet(d, key, value) ==
    [k \in DOMAIN d \cup {key} |-> IF k = key THEN value ELSE d[k]]

\* del d[key]
DictDel(d, key) == [k \in DOMAIN d \ {key} |-> d[k]]

\* d.get(key, default)
DictGet(d, key, default) == IF key \in DOMAIN d THEN d[key] ELSE default

---------------------------------------------------------------------------
\* The inputs of the calls.

ProductIds == 1..MaxId

\* a raw id, its string form, and an object whose id attribute is that id
ProductInputs ==
    {PyIntVal(i) : i \in ProductIds}
        \cup {PyStrVal(IntStr(i)) : i \in ProductIds}
        \cup {PyObj(PyIntVal(i)) : i \in ProductIds}

\* ints, a numeral, a str that is no numeral, None and a float
QuantityInputs ==
    {PyIntVal(q) : q \in {-1} \cup 1..MaxQty}
        \cup {PyStrVal(IntStr(MaxQty)), PyStrVal(<<"a">>), None,
              PyFloatHalves(2 * MaxQty - 1)}

Anonymous == [is_authenticated |-> FALSE, id |-> 0]
\* the users a request is bound to: user 1 has a Profile row, user 2 has none
UserIds == {1, 2}
Users == {Anonymous} \cup {[is_authenticated |-> TRUE, id |-> u] : u \in UserIds}

\* the users with a Profile row: user 3's row is another user's
ProfileUserIds == {1, 3}

\* what a Profile row's old_cart holds before this request
StaleCart == [k \in {IntStr(MaxId)} |-> 1]
InitialProfiles == [u \in ProfileUserIds |-> StaleCart]

Product(i, p, sp, sale) == [id |-> i, price |-> p, sale_price |-> sp, is_sale |-> sale]

\* p1 priced 10 not on sale, p2 priced 20 with sale_price 15 on sale
ExampleCatalog == {Product(1, 10, 5, FALSE), Product(2, 20, 15, TRUE)}

NoCall == [op |-> "init", product |-> None, quantity |-> None, outcome |-> "ok"]
Called(o, p, q, out) == [op |-> o, product |-> p, quantity |-> q, outcome |-> out]

---------------------------------------------------------------------------
\* Cart.

\* Cart.__init__ on a session without a "cart" entry
Init ==
    /\ cart = EmptyCart
    /\ modified = FALSE
    /\ user \in Users
    /\ profiles = InitialProfiles
    /\ catalog = ExampleCatalog
    /\ call = NoCall
    /\ before = EmptyCart
    /\ ret = None

\* FilterUpdate as update_or_create: a missing row is created
UpdateOrCreate(rows, uid, value) ==
    [u \in DOMAIN rows \cup {uid} |-> IF u = uid THEN value ELSE rows[u]]

\* Profile.objects.filter(user_id=uid).update(old_cart=value): every matching
\* row is overwritten; no row matching is no error and creates nothing
FilterUpdate(rows, uid, value) ==
    [u \in DOMAIN rows |-> IF u = uid THEN value ELSE rows[u]]

\* _save merging the cart into what old_cart held instead of overwriting it
_save_merging(newCart) ==
    /\ modified' = TRUE
    /\ profiles' = IF user.is_authenticated
                   THEN [u \in DOMAIN profiles |->
                            IF u = user.id THEN newCart @@ profiles[u]
                            ELSE profiles[u]]
                   ELSE profiles

\* Cart._save, with self.cart being newCart
_save(newCart) ==
    /\ modified' = TRUE
    /\ profiles' = IF user.is_authenticated
                   THEN FilterUpdate(profiles, user.id, newCart)
                   ELSE profiles

\* the call raised before _save ran
Raise(op, product, quantity, exc) ==
    /\ call' = Called(op, product, quantity, exc)
    /\ ret' = None
    /\ UNCHANGED <<cart, modified, profiles>>

\* _get_product_id without the hasattr test: str(product) of whatever is passed
_get_product_id_of_str(product) == PyStr(product)

\* Cart._get_product_id
_get_product_id(product) ==
    PyStr(IF HasAttrId(product) THEN product.id ELSE product)

\* add incrementing the quantity of an id already in the cart
add_incrementing(product, quantity) ==
    LET product_id == _get_product_id(product)
        conv == PyInt(quantity)
    IN  /\ before' = cart
        /\ UNCHANGED <<user, catalog>>
        /\ IF conv.ok
           THEN /\ cart' = DictSet(cart, product_id,
                                   DictGet(cart, product_id, 0) + conv.n)
                /\ _save(cart')
                /\ call' = Called("add", product, quantity, "ok")
                /\ ret' = None
           ELSE Raise("add", product, quantity, conv.exc)

\* add converting the quantity before it looks the id up
add_converting_first(product, quantity) ==
    LET product_id == _get_product_id(product)
        conv == PyInt(quantity)
    IN  /\ before' = cart
        /\ UNCHANGED <<user, catalog>>
        /\ IF conv.ok
           THEN /\ cart' = IF product_id \notin DOMAIN cart
                           THEN DictSet(cart, product_id, conv.n) ELSE cart
                /\ _save(cart')
                /\ call' = Called("add", product, quantity, "ok")
                /\ ret' = None
           ELSE Raise("add", product, quantity, conv.exc)

\* Cart.add
add(product, quantity) ==
    LET product_id == _get_product_id(product)
        conv == PyInt(quantity)
    IN  /\ before' = cart
        /\ UNCHANGED <<user, catalog>>
        /\ IF product_id \notin DOMAIN cart
           THEN IF conv.ok
                THEN /\ cart' = DictSet(cart, product_id, conv.n)
                     /\ _save(cart')
                     /\ call' = Called("add", product, quantity, "ok")
                     /\ ret' = None
                ELSE Raise("add", product, quantity, conv.exc)
           ELSE /\ cart' = cart
                /\ _save(cart')
                /\ call' = Called("add", product, quantity, "ok")
                /\ ret' = None

\* update setting the quantity only of an id not yet in the cart, as add does
update_if_absent(product, quantity) ==
    LET product_id == _get_product_id(product)
        conv == PyInt(quantity)
    IN  /\ before' = cart
        /\ UNCHANGED <<user, catalog>>
        /\ IF conv.ok
           THEN /\ cart' = IF product_id \notin DOMAIN cart
                           THEN DictSet(cart, product_id, conv.n) ELSE cart
                /\ _save(cart')
                /\ call' = Called("update", product, quantity, "ok")
                /\ ret' = [t |-> "dict", d |-> cart']
           ELSE Raise("update", product, quantity, conv.exc)

\* Cart.update
update(product, quantity) ==
    LET product_id == _get_product_id(product)
        conv == PyInt(quantity)
    IN  /\ before' = cart
        /\ UNCHANGED <<user, catalog>>
        /\ IF conv.ok
           THEN /\ cart' = DictSet(cart, product_id, conv.n)
                /\ _save(cart')
                /\ call' = Called("update", product, quantity, "ok")
                /\ ret' = [t |-> "dict", d |-> cart']
           ELSE Raise("update", product, quantity, conv.exc)

\* delete without the membership test: del of an absent key raises KeyError
delete_unchecked(product) ==
    LET product_id == _get_product_id(product)
    IN  /\ before' = cart
        /\ UNCHANGED <<user, catalog>>
        /\ IF product_id \in DOMAIN cart
           THEN /\ cart' = DictDel(cart, product_id)
                /\ _save(cart')
                /\ call' = Called("delete", product, None, "ok")
                /\ ret' = None
           ELSE Raise("delete", product, None, "KeyError")

\* Cart.delete
delete(product) ==
    LET product_id == _get_product_id(product)
    IN  /\ before' = cart
        /\ UNCHANGED <<user, catalog>>
        /\ cart' = IF product_id \in DOMAIN cart
                   THEN DictDel(cart, product_id) ELSE cart
        /\ _save(cart')
        /\ call' = Called("delete", product, None, "ok")
        /\ ret' = None

\* a query: nothing but the call record and the returned value changes
Query(op, value) ==
    /\ before' = cart
    /\ call' = Called(op, None, None, "ok")
    /\ ret' = value
    /\ UNCHANGED <<cart, modified, user, profiles, catalog>>

\* the sum of the quantities instead of the number of keys
RECURSIVE SumValues(_, _)
SumValues(d, keys) ==
    IF keys = {} THEN 0
    ELSE LET k == CHOOSE x \in keys : TRUE
         IN  d[k] + SumValues(d, keys \ {k})

DictSumValues(d) == SumValues(d, DOMAIN d)

\* len(self.cart)
DictLen(d) == Cardinality(DOMAIN d)

\* Cart.__len__
__len__ == Query("len", PyIntVal(DictLen(cart)))

\* the ids that id__in=keys selects: each key converted to the id field's int
IdIn(keys) ==
    {PyInt(PyStrVal(k)).n : k \in {x \in keys : PyInt(PyStrVal(x)).ok}}

\* Product.objects.filter(id__in=self.cart.keys())
Products(c, cat) == {p \in cat : p.id \in IdIn(DOMAIN c)}

\* Cart.get_products
get_products == Query("get_products", [t |-> "products", ps |-> Products(cart, catalog)])

\* Cart.get_quantities: the live mapping
get_quantities == Query("get_quantities", [t |-> "dict", d |-> cart])

\* the regular price whether or not the product is on sale
UnitPriceRegular(product) == product.price

\* the price of one product in the loop of get_total_price
UnitPrice(product) ==
    IF product.is_sale THEN product.sale_price ELSE product.price

\* the loop of get_total_price over the products still to visit
RECURSIVE TotalOver(_, _)
TotalOver(products, c) ==
    IF products = {} THEN 0
    ELSE LET product == CHOOSE p \in products : TRUE
             quantity == DictGet(c, PyStr(PyIntVal(product.id)), 0)
         IN  UnitPrice(product) * quantity + TotalOver(products \ {product}, c)

\* Cart.get_total_price
get_total_price ==
    Query("get_total_price", PyIntVal(TotalOver(Products(cart, catalog), cart)))

Next ==
    \/ \E product \in ProductInputs, quantity \in QuantityInputs : add(product, quantity)
    \/ \E product \in ProductInputs, quantity \in QuantityInputs : update(product, quantity)
    \/ \E product \in ProductInputs : delete(product)
    \/ __len__
    \/ get_products
    \/ get_quantities
    \/ get_total_price

Spec == Init /\ [][Next]_vars

---------------------------------------------------------------------------
\* Pricing runs: get_total_price applied to every cart and catalog in bounds.

\* the keys "1".."n" and the key "01", which is no product's string form
PriceKeys == {IntStr(i) : i \in 1..MaxCatalogId} \cup {<<"0", "1">>}

PriceCarts == UNION {[K -> 1..MaxCartQty] : K \in SUBSET PriceKeys}

\* product i costs 10 * i, or 10 * i - 5 when on sale
CatalogEntries(i) == {Product(i, 10 * i, 10 * i - 5, sale) : sale \in BOOLEAN}

\* at most one product per id
Catalogs ==
    {cat \in SUBSET (UNION {CatalogEntries(i) : i \in 1..MaxCatalogId}) :
        \A p1 \in cat, p2 \in cat : p1.id = p2.id => p1 = p2}

InitPrice ==
    /\ cart \in PriceCarts
    /\ modified = FALSE
    /\ user = Anonymous
    /\ profiles = InitialProfiles
    /\ catalog \in Catalogs
    /\ call = NoCall
    /\ before = cart
    /\ ret = None

NextPrice == get_total_price

SpecPrice == InitPrice /\ [][NextPrice]_vars

---------------------------------------------------------------------------
\* Properties.

Mutating == {"add", "update", "delete"}

\* the key the last call addressed
CalledId == _get_product_id(call.product)

\* every entry of `before` other than key is in the cart, unchanged
OthersUnchanged(key) ==
    /\ DOMAIN cart \ {key} = DOMAIN before \ {key}
    /\ \A k \in DOMAIN before \ {key} : cart[k] = before[k]

\* C1: add(p, q) on a cart without the normalized id of p maps that id to q;
\* on a cart that holds the id it leaves the quantity as it was; every other
\* entry is unchanged in both cases.
C1_AddInsertsOnce ==
    /\ (call.op = "add" /\ call.quantity.t = "int") => call.outcome = "ok"
    /\ (call.op = "add" /\ call.outcome = "ok") =>
          /\ CalledId \in DOMAIN cart
          /\ CalledId \notin DOMAIN before =>
                /\ cart[CalledId] = PyInt(call.quantity).n
                /\ call.quantity.t = "int" => cart[CalledId] = call.quantity.n
          /\ CalledId \in DOMAIN before => cart[CalledId] = before[CalledId]
          /\ OthersUnchanged(CalledId)

\* an add of an id the cart held with another quantity, beside another entry
C1_Witness ==
    /\ call.op = "add" /\ call.outcome = "ok"
    /\ call.quantity.t = "int"
    /\ CalledId \in DOMAIN before
    /\ before[CalledId] # call.quantity.n
    /\ cart[CalledId] = before[CalledId]
    /\ DOMAIN cart # {CalledId}

\* C2: update(p, q) sets the quantity of the normalized id of p to q whether or
\* not the id was present, leaves every other entry unchanged and returns the
\* mapping as it is after the update.
C2_UpdateOverwrites ==
    /\ (call.op = "update" /\ call.quantity.t = "int") => call.outcome = "ok"
    /\ (call.op = "update" /\ call.outcome = "ok") =>
          /\ CalledId \in DOMAIN cart
          /\ cart[CalledId] = PyInt(call.quantity).n
          /\ call.quantity.t = "int" => cart[CalledId] = call.quantity.n
          /\ OthersUnchanged(CalledId)
          /\ ret = [t |-> "dict", d |-> cart]

\* an update of an id the cart held with another quantity, beside another entry
C2_Witness ==
    /\ call.op = "update" /\ call.outcome = "ok"
    /\ call.quantity.t = "int"
    /\ CalledId \in DOMAIN before
    /\ before[CalledId] # call.quantity.n
    /\ cart[CalledId] = call.quantity.n
    /\ DOMAIN cart # {CalledId}
    /\ ret.d = cart

\* C3: delete(p) removes the normalized id of p when present and leaves every
\* other entry unchanged; when the id is absent it raises no error and leaves
\* the whole mapping unchanged.
C3_DeleteRemoves ==
    call.op = "delete" =>
        /\ call.outcome = "ok"
        /\ CalledId \notin DOMAIN cart
        /\ OthersUnchanged(CalledId)
        /\ CalledId \notin DOMAIN before => cart = before

\* a delete of an id the cart held, beside an entry that stays
C3_Witness ==
    /\ call.op = "delete" /\ call.outcome = "ok"
    /\ CalledId \in DOMAIN before
    /\ CalledId \notin DOMAIN cart
    /\ cart # EmptyCart

\* C4: after every completed mutating call the session's modified flag is true
\* and, if the bound user is authenticated and has a profile row, that row's
\* old_cart is exactly the cart's mapping.
C4_SavedAfterMutation ==
    (call.op \in Mutating /\ call.outcome = "ok") =>
        /\ modified
        /\ (user.is_authenticated /\ user.id \in DOMAIN profiles) =>
              profiles[user.id] = cart

\* an add of an id already present, by a user whose row held a key the cart
\* does not hold: the row now is the cart, without that key
C4_Witness ==
    /\ call.op = "add" /\ call.outcome = "ok"
    /\ CalledId \in DOMAIN before
    /\ user.is_authenticated /\ user.id \in DOMAIN profiles
    /\ \E k \in DOMAIN StaleCart : k \notin DOMAIN cart
    /\ profiles[user.id] = cart
    /\ modified

\* the total as the claim states it: over the keys of the cart, the quantity
\* times the price of the catalog product with that id, 0 when there is none
RECURSIVE ClaimedTotal(_, _, _)
ClaimedTotal(keys, c, cat) ==
    IF keys = {} THEN 0
    ELSE LET k == CHOOSE x \in keys : TRUE
             matches == {p \in cat : IntStr(p.id) = k}
             contribution ==
                 IF matches = {} THEN 0
                 ELSE LET p == CHOOSE x \in matches : TRUE
                      IN  c[k] * (IF p.is_sale THEN p.sale_price ELSE p.price)
         IN  contribution + ClaimedTotal(keys \ {k}, c, cat)

\* cart {p1: 2, p2: 3, p3: 1}
ExampleCart == (IntStr(1) :> 2) @@ (IntStr(2) :> 3) @@ (IntStr(3) :> 1)

\* C5: get_total_price() is the sum, over the catalog products whose id is a
\* key of the cart, of quantity * (sale_price if is_sale else price); an id
\* without a catalog product contributes 0; the example cart gives 65.
C5_TotalPrice ==
    call.op = "get_total_price" =>
        /\ call.outcome = "ok"
        /\ ret = PyIntVal(ClaimedTotal(DOMAIN cart, cart, catalog))
        /\ (cart = ExampleCart /\ catalog = ExampleCatalog) => ret.n = 65

\* the total of the example cart against the example catalog
C5_Witness ==
    /\ call.op = "get_total_price"
    /\ cart = ExampleCart
    /\ catalog = ExampleCatalog
    /\ ret.n = 65

\* C6: every quantity stored in the cart is a non-negative integer.
C6_QuantitiesNonNegative ==
    \A k \in DOMAIN cart : cart[k] \in Nat

\* the bound user is authenticated and had no profile row
NoProfileRow == user.is_authenticated /\ user.id \notin DOMAIN InitialProfiles

\* the last call had to convert its quantity, and the conversion fails
ConversionFails ==
    /\ ~PyInt(call.quantity).ok
    /\ \/ call.op = "update"
       \/ call.op = "add" /\ CalledId \notin DOMAIN before

\* C7, as claimed: with an authenticated user without profile row a mutating
\* call does not complete normally.
C7_NoProfileRowRaises ==
    (NoProfileRow /\ call.op \in Mutating) => call.outcome # "ok"

\* C7, amended: with an authenticated user without profile row a mutating call
\* completes normally unless its quantity conversion fails; it marks the
\* session modified, and the profile table is left as it was: no row is
\* created and no row is changed.
C7_NoProfileRowIsNoError ==
    (NoProfileRow /\ call.op \in Mutating) =>
        /\ call.outcome = "ok" <=> ~ConversionFails
        /\ call.outcome = "ok" => modified
        /\ profiles = InitialProfiles

\* a completed update by an authenticated user without profile row
C7_Witness ==
    /\ NoProfileRow
    /\ call.op = "update" /\ call.outcome = "ok"
    /\ cart # before
    /\ modified
    /\ user.id \notin DOMAIN profiles

\* C8, as claimed: add or update with a quantity that cannot be converted to
\* an integer ends in a conversion failure.
C8_BadQuantityRaises ==
    (call.op \in {"add", "update"} /\ ~PyInt(call.quantity).ok) =>
        call.outcome \in {"ValueError", "TypeError"}

\* C8, amended: update, and add of an id not in the cart, with a quantity that
\* cannot be converted end in a conversion failure and leave the mapping
\* unchanged; add of an id already in the cart never converts the quantity and
\* completes normally, mapping unchanged.
C8_BadQuantityRaisesWhenConverted ==
    (call.op \in {"add", "update"} /\ ~PyInt(call.quantity).ok) =>
        /\ cart = before
        /\ ConversionFails => call.outcome \in {"ValueError", "TypeError"}
        /\ ~ConversionFails => call.outcome = "ok" /\ modified

\* an add of an id already present with a quantity that cannot be converted
C8_Witness ==
    /\ call.op = "add"
    /\ ~PyInt(call.quantity).ok
    /\ CalledId \in DOMAIN before
    /\ call.outcome = "ok"

\* the id a product argument stands for: the raw id, the id a string is the
\* decimal form of, or the id attribute of an object
IdOf(product) ==
    CASE product.t = "int" -> product.n
      [] product.t = "str" -> CHOOSE i \in ProductIds : IntStr(i) = product.s
      [] product.t = "obj" -> product.id.n

\* C9: every key of the cart is the string form of a product id, and a raw id,
\* its string form and an object with that id all address the same key.
C9_KeysNormalized ==
    /\ DOMAIN cart \subseteq {IntStr(i) : i \in ProductIds}
    /\ (call.op \in Mutating /\ call.outcome = "ok") =>
          LET key == IntStr(IdOf(call.product))
          IN  /\ OthersUnchanged(key)
              /\ call.op = "add" =>
                    /\ key \in DOMAIN cart
                    /\ key \in DOMAIN before => cart[key] = before[key]
              /\ call.op = "update" => cart[key] = PyInt(call.quantity).n
              /\ call.op = "delete" => key \notin DOMAIN cart

\* a delete through an object removed the entry held under the id's string
C9_Witness ==
    /\ call.op = "delete"
    /\ call.product.t = "obj"
    /\ IntStr(call.product.id.n) \in DOMAIN before
    /\ IntStr(call.product.id.n) \notin DOMAIN cart

\* what length() returns for the mapping c
Length(c) == DictLen(c)

\* C10: length() is the number of distinct product ids that are keys of the
\* mapping, whatever their quantities; 1 after add on an empty cart and 0 after
\* deleting that id.
C10_LengthCountsIds ==
    /\ call.op = "len" =>
          ret = PyIntVal(Cardinality({i \in ProductIds : IntStr(i) \in DOMAIN cart}))
    /\ (call.op = "add" /\ call.outcome = "ok" /\ before = EmptyCart) =>
          Length(cart) = 1
    /\ (call.op = "delete" /\ DOMAIN before = {CalledId}) => Length(cart) = 0

\* length() of a cart of two ids, each with the largest quantity, is 2
C10_Witness ==
    /\ call.op = "len"
    /\ Cardinality(DOMAIN cart) = 2
    /\ \A k \in DOMAIN cart : cart[k] = MaxQty
    /\ ret = PyIntVal(2)

====
